---- MODULE Spec2Model ----
(***************************************************************************)
(* Model of CetusHedgeBot (src/cetus_hedge.py): a single-threaded poll     *)
(* loop that keeps a liquidity deposit (pool leg) and an offsetting short  *)
(* (hedge leg), and tears both down and recreates them when the price      *)
(* drifts towards a boundary of the range.                                 *)
(*                                                                         *)
(* Numbers.  Python floats are modelled as exact rationals:                *)
(*   - the two configured fractions are k/Den;                             *)
(*   - lower_price / upper_price are stored multiplied by Den;             *)
(*   - amounts are pairs <<numerator, denominator>>.                       *)
(* The methods initialize_position, remove_liquidity,                      *)
(* close_hedge_position, send_alert and get_pool_position are called by    *)
(* the source but not defined in it; they are modelled from spec.md.       *)
(***************************************************************************)
EXTENDS Integers, Sequences, FiniteSets, TLC

\* ---- bounds of the model ------------------------------------------------
Den == 4             \* fractions of the configuration are k/Den
MinPrice == 5        \* oracle prices: MinPrice, MaxPrice - 1, MaxPrice
MaxPrice == 9
MaxRange == 2        \* price_range is 1/Den .. MaxRange/Den
MaxThreshold == 2    \* rebalance_threshold is 1/Den .. MaxThreshold/Den
BaseAmount == 1000   \* config['strategy']['base_amount']
MaxId == 3           \* handles / order ids are 1..MaxId, 0 is None
MaxDepth == 2        \* cap on nested rebalance_position frames

Prices == {MinPrice, MaxPrice - 1, MaxPrice}
Ids == 1..MaxId
None == 0

Configs == [price_range : 1..MaxRange, rebalance_threshold : 1..MaxThreshold]

VARIABLES
    pc,                \* position of the process in main_loop and its callees
    ctx,               \* caller of the running initialize_position
    depth,             \* rebalance_position frames entered and not yet left
    config,            \* self.config['strategy']
    price,             \* what the ticker would answer now
    current_position,  \* self.current_position
    locals,            \* local variables of the running calls
    pool_open,         \* handles of the deposits open on the pool
    hedge_open,        \* ids of the shorts open on the venue
    calls,             \* external submissions of this iteration, in order
    alerts,            \* alerts sent in this iteration, in order
    drift,             \* result of check_rebalance_condition in this iteration
    failed,            \* a rebalance raised and no position was written since
    iter_start,        \* position and legs when this poll iteration began
    notify_failed,     \* a message of this iteration was not delivered
    calm               \* from now on every call succeeds and the price rests

vars == <<pc, ctx, depth, config, price, current_position, locals, pool_open,
          hedge_open, calls, alerts, drift, failed, iter_start,
          notify_failed, calm>>

\* ---- values -------------------------------------------------------------
Zero == <<0, 1>>

\* self.current_position = None (line 25)
NoPosition ==
    [status |-> "Uninitialized", lower_price |-> 0, upper_price |-> 0,
     range_price |-> 0, sui_amount |-> Zero, usdc_amount |-> Zero,
     hedge_size |-> Zero, handle |-> None, hedge_ref |-> None]

NoLocals ==
    [sui_amount |-> Zero, usdc_amount |-> Zero, swap_price |-> 0,
     range_price |-> 0, lower |-> 0, upper |-> 0, step2_price |-> 0,
     new_lower |-> 0,
     new_upper |-> 0, handle |-> None, order_id |-> None, err |-> "none"]

\* ---- pure computations --------------------------------------------------
\* lines 105-106 (and the range of initialize_position): price * (1 -/+ f),
\* as a value multiplied by Den.
LowerOf(p, f) == p * (Den - f)
UpperOf(p, f) == p * (Den + f)

\* lines 41-42 with the whole capital kept as the paired asset
calculate_swap_amounts_whole(p, total) ==
    [sui_amount |-> <<total, 2 * p>>, usdc_amount |-> <<total, 1>>]

\* lines 41-42: sui_amount = (total * 0.5) / price, usdc_amount = total * 0.5
calculate_swap_amounts(p, total) ==
    [sui_amount |-> <<total, 2 * p>>, usdc_amount |-> <<total, 2>>]

\* lines 93-94, multiplied by Den * Den
lower_threshold(pos, cfg) == pos.lower_price * (Den + cfg.rebalance_threshold)
upper_threshold(pos, cfg) == pos.upper_price * (Den - cfg.rebalance_threshold)

\* line 96 with strict comparisons
check_rebalance_condition_strict(pos, cfg, p) ==
    \/ p * Den * Den < lower_threshold(pos, cfg)
    \/ p * Den * Den > upper_threshold(pos, cfg)

\* line 96
check_rebalance_condition(pos, cfg, p) ==
    \/ p * Den * Den <= lower_threshold(pos, cfg)
    \/ p * Den * Den >= upper_threshold(pos, cfg)

\* The least id that names neither an open leg nor the stored one
HasFresh(open, cur) == \E i \in Ids : i \notin open \cup {cur}
FreshId(open, cur) ==
    CHOOSE i \in Ids : /\ i \notin open \cup {cur}
                       /\ \A j \in Ids : j < i => j \in open \cup {cur}

Call(op, ok) == [op |-> op, ok |-> ok]

\* what an external call can answer: success, or a failure unless calm
Outcomes == IF calm THEN {TRUE} ELSE BOOLEAN

Snapshot == [position |-> current_position, pool |-> pool_open,
             hedge |-> hedge_open]

\* ---- initial state ------------------------------------------------------
Init ==
    /\ pc = "start"
    /\ ctx = "none"
    /\ depth = 0
    /\ config \in Configs
    /\ price \in Prices
    /\ current_position = NoPosition
    /\ locals = NoLocals
    /\ pool_open = {}
    /\ hedge_open = {}
    /\ calls = <<>>
    /\ alerts = <<>>
    /\ drift = "none"
    /\ failed = FALSE
    /\ iter_start = Snapshot
    /\ notify_failed = FALSE
    /\ calm = FALSE

\* ---- exceptions ---------------------------------------------------------
\* An exception leaves every frame up to the nearest handler.  The call on
\* line 135 is outside the try of lines 137-152, so an exception raised
\* during the first initialize_position ends the process; anywhere else it
\* reaches the handler of line 150.
Unwind(kind) ==
    /\ pc' = IF ctx = "startup" THEN "terminated" ELSE "handler"
    /\ ctx' = "none"
    /\ depth' = 0
    /\ failed' = (failed \/ depth > 0)
    /\ locals' = [locals EXCEPT !.err = kind]

\* ---- external collaborators modelled from spec.md -----------------------
\* PoolLedger.removeLiquidity: withdraws everything under the handle of the
\* stored position; a handle that is already closed gives zero amounts.
remove_liquidity(open, pos) == open \ {pos.handle}

\* HedgeVenue.closeShort: closes the short of the stored reference; an
\* absent or already closed reference gives zero.
close_hedge_position(open, pos) == open \ {pos.hedge_ref}

\* AlertSink.notify: the text is handed to the notifier.
send_alert(sent, kind, about) == Append(sent, [kind |-> kind, about |-> about])

\* initialize_position, failure of the deposit: the position is not Active.
MarkFaulted(pos) ==
    IF pos.status = "Uninitialized" THEN pos
    ELSE [pos EXCEPT !.status = "Faulted"]

\* initialize_position, end: the Position that is written.
NewPosition(l) ==
    [status |-> IF l.order_id = None THEN "Faulted" ELSE "Active",
     lower_price |-> l.lower, upper_price |-> l.upper,
     range_price |-> l.range_price,
     sui_amount |-> l.sui_amount, usdc_amount |-> l.usdc_amount,
     hedge_size |-> IF l.order_id = None THEN Zero ELSE l.sui_amount,
     handle |-> l.handle, hedge_ref |-> l.order_id]

\* ---- main_loop, line 135 ------------------------------------------------
Start ==
    /\ pc = "start"
    /\ pc' = "init_swap"
    /\ ctx' = "startup"
    /\ locals' = NoLocals
    /\ UNCHANGED <<depth, config, price, current_position, pool_open,
                   hedge_open, calls, alerts, drift, failed,
                   iter_start, notify_failed, calm>>

\* ---- initialize_position ------------------------------------------------
\* calculate_swap_amounts (lines 36-43): reads the price itself.
InitSwap ==
    /\ pc = "init_swap"
    /\ \E ok \in Outcomes :
         IF ok
         THEN /\ locals' = [locals EXCEPT
                    !.sui_amount =
                        calculate_swap_amounts(price, BaseAmount).sui_amount,
                    !.usdc_amount =
                        calculate_swap_amounts(price, BaseAmount).usdc_amount,
                    !.swap_price = price]
              /\ pc' = "init_range"
              /\ UNCHANGED <<ctx, depth, failed>>
         ELSE Unwind("oracle")
    /\ UNCHANGED <<config, price, current_position, pool_open, hedge_open,
                   calls, alerts, drift,
                   iter_start, notify_failed, calm>>

\* the price read and the range of initialize_position
InitRange ==
    /\ pc = "init_range"
    /\ \E ok \in Outcomes :
         IF ok
         THEN /\ locals' = [locals EXCEPT
                    !.range_price = price,
                    !.lower = LowerOf(price, config.price_range),
                    !.upper = UpperOf(price, config.price_range)]
              /\ pc' = "init_add"
              /\ UNCHANGED <<ctx, depth, failed>>
         ELSE Unwind("oracle")
    /\ UNCHANGED <<config, price, current_position, pool_open, hedge_open,
                   calls, alerts, drift,
                   iter_start, notify_failed, calm>>

\* add_liquidity returning None on a rejected transaction instead of raising
add_liquidity_noraise ==
    /\ pc = "init_add"
    /\ HasFresh(pool_open, current_position.handle)
    /\ \E ok \in Outcomes :
         /\ calls' = Append(calls, Call("addLiquidity", ok))
         /\ IF ok
            THEN /\ pool_open' = pool_open \cup
                        {FreshId(pool_open, current_position.handle)}
                 /\ locals' = [locals EXCEPT !.handle =
                        FreshId(pool_open, current_position.handle)]
            ELSE /\ pool_open' = pool_open
                 /\ locals' = [locals EXCEPT !.handle = None]
    /\ pc' = "init_hedge"
    /\ UNCHANGED <<ctx, depth, failed, current_position, config, price,
                   hedge_open, alerts, drift,
                   iter_start, notify_failed, calm>>

\* add_liquidity (lines 45-72): the deposit is reflected fully or not at
\* all; a rejected transaction raises.
add_liquidity ==
    /\ pc = "init_add"
    /\ HasFresh(pool_open, current_position.handle)
    /\ \E ok \in Outcomes :
         /\ calls' = Append(calls, Call("addLiquidity", ok))
         /\ IF ok
            THEN /\ pool_open' = pool_open \cup
                        {FreshId(pool_open, current_position.handle)}
                 /\ locals' = [locals EXCEPT !.handle =
                        FreshId(pool_open, current_position.handle)]
                 /\ pc' = "init_hedge"
                 /\ UNCHANGED <<ctx, depth, failed, current_position>>
            ELSE /\ pool_open' = pool_open
                 /\ current_position' = MarkFaulted(current_position)
                 /\ Unwind("add_liquidity")
    /\ UNCHANGED <<config, price, hedge_open, alerts, drift,
                   iter_start, notify_failed, calm>>

\* execute_hedge placing the order a second time when the first one failed
execute_hedge_retry ==
    /\ pc = "init_hedge"
    /\ HasFresh(hedge_open, current_position.hedge_ref)
    /\ \E ok \in Outcomes, again \in Outcomes :
         IF ok
         THEN /\ calls' = Append(calls, Call("openShort", TRUE))
              /\ hedge_open' = hedge_open \cup
                     {FreshId(hedge_open, current_position.hedge_ref)}
              /\ locals' = [locals EXCEPT !.order_id =
                     FreshId(hedge_open, current_position.hedge_ref)]
              /\ alerts' = alerts
              /\ notify_failed' = notify_failed
         ELSE /\ calls' = calls \o <<Call("openShort", FALSE),
                                     Call("openShort", again)>>
              /\ hedge_open' = IF again
                     THEN hedge_open \cup
                          {FreshId(hedge_open, current_position.hedge_ref)}
                     ELSE hedge_open
              /\ locals' = [locals EXCEPT !.order_id =
                     IF again
                     THEN FreshId(hedge_open, current_position.hedge_ref)
                     ELSE None]
              /\ alerts' = IF again THEN alerts
                           ELSE send_alert(alerts, "hedge", "openShort")
              /\ \E delivered \in Outcomes :
                     notify_failed' = (notify_failed \/ (~again /\ ~delivered))
    /\ pc' = "init_write"
    /\ UNCHANGED <<ctx, depth, config, price, current_position, pool_open,
                   drift, failed,
                   iter_start, calm>>

\* execute_hedge swallowing a failed order without the alert of line 84
execute_hedge_silent ==
    /\ pc = "init_hedge"
    /\ HasFresh(hedge_open, current_position.hedge_ref)
    /\ \E ok \in Outcomes :
         /\ calls' = Append(calls, Call("openShort", ok))
         /\ IF ok
            THEN /\ hedge_open' = hedge_open \cup
                        {FreshId(hedge_open, current_position.hedge_ref)}
                 /\ locals' = [locals EXCEPT !.order_id =
                        FreshId(hedge_open, current_position.hedge_ref)]
            ELSE /\ hedge_open' = hedge_open
                 /\ locals' = [locals EXCEPT !.order_id = None]
    /\ pc' = "init_write"
    /\ UNCHANGED <<ctx, depth, config, price, current_position, pool_open,
                   alerts, drift, failed, iter_start, notify_failed, calm>>

\* execute_hedge (lines 74-84): a failed order is alerted and swallowed, the
\* method then returns None.
execute_hedge ==
    /\ pc = "init_hedge"
    /\ HasFresh(hedge_open, current_position.hedge_ref)
    /\ \E ok \in Outcomes :
         /\ calls' = Append(calls, Call("openShort", ok))
         /\ IF ok
            THEN /\ hedge_open' = hedge_open \cup
                        {FreshId(hedge_open, current_position.hedge_ref)}
                 /\ locals' = [locals EXCEPT !.order_id =
                        FreshId(hedge_open, current_position.hedge_ref)]
                 /\ alerts' = alerts
                 /\ notify_failed' = notify_failed
            ELSE /\ hedge_open' = hedge_open
                 /\ locals' = [locals EXCEPT !.order_id = None]
                 /\ alerts' = send_alert(alerts, "hedge", "openShort")
                 /\ \E delivered \in Outcomes :
                        notify_failed' = (notify_failed \/ ~delivered)
    /\ pc' = "init_write"
    /\ UNCHANGED <<ctx, depth, config, price, current_position, pool_open,
                   drift, failed,
                   iter_start, calm>>

\* initialize_position writes the Position and returns to its caller: the
\* loop (line 136) or rebalance_position, which then returns to line 141.
InitWrite ==
    /\ pc = "init_write"
    /\ current_position' = NewPosition(locals)
    /\ pc' = IF ctx = "startup" THEN "check" ELSE "report"
    /\ depth' = IF ctx = "startup" THEN depth ELSE depth - 1
    /\ failed' = (ctx = "rebalance" /\ locals.order_id = None)
    /\ ctx' = "none"
    /\ locals' = NoLocals
    /\ iter_start' = IF ctx = "startup"
                     THEN [position |-> NewPosition(locals),
                           pool |-> pool_open, hedge |-> hedge_open]
                     ELSE iter_start
    /\ UNCHANGED <<config, price, pool_open, hedge_open, calls, alerts, drift,
                   notify_failed, calm>>

\* ---- main_loop, line 138 ------------------------------------------------
\* check_rebalance_condition (lines 86-96) and the branch on its result.
CheckRebalance ==
    /\ pc = "check"
    /\ calls' = <<>>
    /\ alerts' = <<>>
    /\ notify_failed' = FALSE
    /\ \E ok \in Outcomes :
         IF ~ok
         THEN /\ drift' = "none"
              /\ Unwind("oracle")
         ELSE IF current_position.status = "Uninitialized"
         THEN /\ drift' = "none"
              /\ Unwind("type_error")
         ELSE IF check_rebalance_condition(current_position, config, price)
         THEN /\ depth < MaxDepth
              /\ drift' = "true"
              /\ pc' = "reb_remove"
              /\ depth' = depth + 1
              /\ locals' = NoLocals
              /\ UNCHANGED <<ctx, failed>>
         ELSE /\ drift' = "false"
              /\ pc' = "report"
              /\ locals' = NoLocals
              /\ UNCHANGED <<ctx, depth, failed>>
    /\ UNCHANGED <<config, price, current_position, pool_open, hedge_open,
                   iter_start, calm>>

\* ---- rebalance_position (lines 98-112) ----------------------------------
\* step 1 with a failure of removeLiquidity swallowed instead of propagated
RebalanceRemove_swallow ==
    /\ pc = "reb_remove"
    /\ \E ok \in Outcomes :
         /\ calls' = Append(calls, Call("removeLiquidity", ok))
         /\ pool_open' = IF ok
                         THEN remove_liquidity(pool_open, current_position)
                         ELSE pool_open
    /\ pc' = "reb_price"
    /\ UNCHANGED <<ctx, depth, failed, locals, config, price,
                   current_position, hedge_open, alerts, drift,
                   iter_start, notify_failed, calm>>

\* step 1, line 101
RebalanceRemove ==
    /\ pc = "reb_remove"
    /\ \E ok \in Outcomes :
         /\ calls' = Append(calls, Call("removeLiquidity", ok))
         /\ IF ok
            THEN /\ pool_open' = remove_liquidity(pool_open, current_position)
                 /\ pc' = "reb_price"
                 /\ UNCHANGED <<ctx, depth, failed, locals>>
            ELSE /\ pool_open' = pool_open
                 /\ Unwind("remove_liquidity")
    /\ UNCHANGED <<config, price, current_position, hedge_open, alerts, drift,
                   iter_start, notify_failed, calm>>

\* step 2, lines 104-106: new_lower and new_upper are locals of
\* rebalance_position; nothing reads them afterwards
RebalancePrice ==
    /\ pc = "reb_price"
    /\ \E ok \in Outcomes :
         IF ok
         THEN /\ locals' = [locals EXCEPT
                    !.step2_price = price,
                    !.new_lower = LowerOf(price, config.price_range),
                    !.new_upper = UpperOf(price, config.price_range)]
              /\ pc' = "reb_close"
              /\ UNCHANGED <<ctx, depth, failed>>
         ELSE Unwind("oracle")
    /\ UNCHANGED <<config, price, current_position, pool_open, hedge_open,
                   calls, alerts, drift,
                   iter_start, notify_failed, calm>>

\* step 3 calling rebalance_position again when closeShort failed
RebalanceClose_reenter ==
    /\ pc = "reb_close"
    /\ \E ok \in Outcomes :
         /\ calls' = Append(calls, Call("closeShort", ok))
         /\ IF ok
            THEN /\ hedge_open' =
                        close_hedge_position(hedge_open, current_position)
                 /\ pc' = "reb_init"
                 /\ UNCHANGED <<ctx, depth, failed, locals>>
            ELSE /\ hedge_open' = hedge_open
                 /\ IF depth < MaxDepth
                    THEN /\ pc' = "reb_remove"
                         /\ depth' = depth + 1
                         /\ UNCHANGED <<ctx, failed, locals>>
                    ELSE Unwind("close_hedge")
    /\ UNCHANGED <<config, price, current_position, pool_open, alerts, drift,
                   iter_start, notify_failed, calm>>

\* step 3 with a failure of closeShort swallowed instead of propagated
RebalanceClose_swallow ==
    /\ pc = "reb_close"
    /\ \E ok \in Outcomes :
         /\ calls' = Append(calls, Call("closeShort", ok))
         /\ hedge_open' = IF ok
                          THEN close_hedge_position(hedge_open, current_position)
                          ELSE hedge_open
    /\ pc' = "reb_init"
    /\ UNCHANGED <<ctx, depth, failed, locals, config, price,
                   current_position, pool_open, alerts, drift,
                   iter_start, notify_failed, calm>>

\* step 3, line 109
RebalanceClose ==
    /\ pc = "reb_close"
    /\ \E ok \in Outcomes :
         /\ calls' = Append(calls, Call("closeShort", ok))
         /\ IF ok
            THEN /\ hedge_open' =
                        close_hedge_position(hedge_open, current_position)
                 /\ pc' = "reb_init"
                 /\ UNCHANGED <<ctx, depth, failed, locals>>
            ELSE /\ hedge_open' = hedge_open
                 /\ Unwind("close_hedge")
    /\ UNCHANGED <<config, price, current_position, pool_open, alerts, drift,
                   iter_start, notify_failed, calm>>

\* step 4, line 112
RebalanceInit ==
    /\ pc = "reb_init"
    /\ pc' = "init_swap"
    /\ ctx' = "rebalance"
    /\ UNCHANGED <<depth, config, price, current_position, locals, pool_open,
                   hedge_open, calls, alerts, drift, failed,
                   iter_start, notify_failed, calm>>

\* ---- main_loop, lines 141-148 -------------------------------------------
\* generate_report (lines 114-131) only reads; it or the delivery of the
\* message may raise.  On success the loop sleeps and starts over.
Report ==
    /\ pc = "report"
    /\ drift' = "none"
    /\ \E outcome \in IF calm THEN {"ok"} ELSE {"ok", "report", "notify"} :
         /\ notify_failed' = (notify_failed \/ outcome = "notify")
         /\ IF outcome = "ok"
            THEN /\ pc' = "check"
                 /\ iter_start' = Snapshot
                 /\ UNCHANGED <<ctx, depth, failed, locals>>
            ELSE /\ iter_start' = iter_start
                 /\ Unwind(outcome)
    /\ UNCHANGED <<config, price, current_position, pool_open, hedge_open,
                   calls, alerts, calm>>

\* ---- main_loop, lines 150-152 -------------------------------------------
\* the handler with an undelivered alert raising out of the except block
Handler_fatal ==
    /\ pc = "handler"
    /\ alerts' = send_alert(alerts, "system", locals.err)
    /\ \E delivered \in Outcomes :
         /\ notify_failed' = (notify_failed \/ ~delivered)
         /\ pc' = IF delivered THEN "check" ELSE "terminated"
    /\ drift' = "none"
    /\ locals' = NoLocals
    /\ iter_start' = Snapshot
    /\ UNCHANGED <<ctx, depth, config, price, current_position, pool_open,
                   hedge_open, calls, failed, calm>>

Handler ==
    /\ pc = "handler"
    /\ alerts' = send_alert(alerts, "system", locals.err)
    /\ \E delivered \in Outcomes :
         notify_failed' = (notify_failed \/ ~delivered)
    /\ drift' = "none"
    /\ pc' = "check"
    /\ locals' = NoLocals
    /\ iter_start' = Snapshot
    /\ UNCHANGED <<ctx, depth, config, price, current_position, pool_open,
                   hedge_open, calls, failed, calm>>

\* ---- environment --------------------------------------------------------
\* The market moves at any time; the process sees the price only when it
\* asks for it, so a move is taken right before a step that reads the price.
PriceMove ==
    /\ ~calm
    /\ pc \in {"init_swap", "init_range", "check", "reb_price", "report"}
    /\ price' \in Prices \ {price}
    /\ UNCHANGED <<pc, ctx, depth, config, current_position, locals,
                   pool_open, hedge_open, calls, alerts, drift,
                   failed,
                   iter_start, notify_failed, calm>>

\* A shutdown signal (SIGINT, SIGTERM) arrives.  main_loop installs no signal
\* handler and catches Exception only (line 150), which KeyboardInterrupt
\* and SystemExit are not, so the process ends at the step it is in; the
\* frames it was in are never resumed.
Shutdown ==
    /\ ~calm
    /\ pc \notin {"terminated", "killed"}
    /\ pc' = "killed"
    /\ locals' = NoLocals
    /\ UNCHANGED <<ctx, depth, config, price, current_position, pool_open,
                   hedge_open, calls, alerts, drift, failed, iter_start,
                   notify_failed, calm>>

\* From some poll iteration on the market rests and every call succeeds.
Calm ==
    /\ ~calm
    /\ pc = "check"
    /\ calm' = TRUE
    /\ UNCHANGED <<pc, ctx, depth, config, price, current_position, locals,
                   pool_open, hedge_open, calls, alerts, drift, failed,
                   iter_start, notify_failed>>

Next ==
    \/ Start
    \/ InitSwap
    \/ InitRange
    \/ add_liquidity
    \/ execute_hedge
    \/ InitWrite
    \/ CheckRebalance
    \/ RebalanceRemove
    \/ RebalancePrice
    \/ RebalanceClose
    \/ RebalanceInit
    \/ Report
    \/ Handler
    \/ PriceMove
    \/ Shutdown
    \/ Calm

Spec == Init /\ [][Next]_vars

\* The steps of the process itself.  The loop is a running thread whose
\* calls and sleeps return, so it always takes its next step.
Process ==
    \/ Start
    \/ InitSwap
    \/ InitRange
    \/ add_liquidity
    \/ execute_hedge
    \/ InitWrite
    \/ CheckRebalance
    \/ RebalanceRemove
    \/ RebalancePrice
    \/ RebalanceClose
    \/ RebalanceInit
    \/ Report
    \/ Handler

LiveSpec == Spec /\ WF_vars(Process)

TypeOK ==
    /\ pc \in {"start", "init_swap", "init_range", "init_add", "init_hedge",
               "init_write", "check", "reb_remove", "reb_price", "reb_close",
               "reb_init", "report", "handler", "terminated", "killed"}
    /\ ctx \in {"none", "startup", "rebalance"}
    /\ depth \in 0..MaxDepth
    /\ config \in Configs
    /\ price \in Prices
    /\ pool_open \subseteq Ids
    /\ hedge_open \subseteq Ids
    /\ drift \in {"none", "true", "false"}
    /\ failed \in BOOLEAN
    /\ notify_failed \in BOOLEAN
    /\ calm \in BOOLEAN

\* ---- claims -------------------------------------------------------------
InRecreation ==
    ctx = "rebalance" /\ pc \in {"init_swap", "init_range", "init_add",
                                 "init_hedge", "init_write"}

RebalanceOrder == <<"removeLiquidity", "closeShort", "addLiquidity", "openShort">>

\* C1: in a rebalance the external calls are made in the order
\* removeLiquidity, closeShort, addLiquidity, openShort, and the recreation
\* is started only after removeLiquidity and closeShort of that rebalance
\* both succeeded.
C1_RebalanceOrder ==
    drift = "true" =>
        /\ Len(calls) <= 4
        /\ \A i \in 1..Len(calls) : calls[i].op = RebalanceOrder[i]
        /\ (Len(calls) >= 3 \/ InRecreation) =>
               /\ Len(calls) >= 2
               /\ calls[1].ok
               /\ calls[2].ok

C1_Witness ==
    /\ drift = "true"
    /\ pc = "report"
    /\ Len(calls) = 4
    /\ \A i \in 1..4 : calls[i].ok

Returned == pc \in {"check", "report", "handler", "terminated"}

LastCall == calls[Len(calls)]

\* C2: when removeLiquidity fails in a rebalance, closeShort and the
\* recreation are not called and the position is Faulted when the rebalance
\* has returned.
C2_RemoveFailureFaults ==
    (pc = "handler" /\ drift = "true" /\ Len(calls) >= 1
        /\ calls[1] = Call("removeLiquidity", FALSE)) =>
        /\ Len(calls) = 1
        /\ current_position.status = "Faulted"

\* C3: when closeShort fails in a rebalance after removeLiquidity succeeded,
\* the recreation is not called and the position is left Faulted.
C3_CloseFailureFaults ==
    (pc = "handler" /\ drift = "true" /\ Len(calls) >= 2
        /\ calls[1] = Call("removeLiquidity", TRUE)
        /\ calls[2] = Call("closeShort", FALSE)) =>
        /\ Len(calls) = 2
        /\ current_position.status = "Faulted"

\* C4: after a rebalance has failed and until a position is written again,
\* the drift check of a poll iteration does not evaluate the stored record
\* as a live range.
C4_NoDriftCheckAfterFailure ==
    [][(failed /\ pc = "check") => drift' = "none"]_vars

\* C5: in initialize_position, when the deposit succeeded and the hedge
\* order failed, the position is Faulted with the pool leg recorded and no
\* hedge reference; a position is never Active without a hedge reference;
\* the hedge order is placed at most once in a call.
C5_HedgeFailureFaults ==
    /\ current_position.status = "Active" =>
           current_position.hedge_ref # None
    /\ Cardinality({i \in 1..Len(calls) : calls[i].op = "openShort"}) <= 1
    /\ (Returned /\ Len(calls) >= 2
            /\ LastCall = Call("openShort", FALSE)
            /\ calls[Len(calls) - 1] = Call("addLiquidity", TRUE)) =>
           /\ current_position.status = "Faulted"
           /\ current_position.handle # None
           /\ current_position.handle \in pool_open
           /\ current_position.hedge_ref = None

C5_Witness ==
    /\ Returned
    /\ Len(calls) >= 2
    /\ LastCall = Call("openShort", FALSE)
    /\ calls[Len(calls) - 1] = Call("addLiquidity", TRUE)
    /\ current_position.status = "Faulted"
    /\ current_position.hedge_ref = None

\* C6: a failed addLiquidity in initialize_position, at start-up or in a
\* rebalance, leaves a status other than Active, and no openShort follows.
C6_AddFailureNotActive ==
    \A i \in 1..Len(calls) :
        calls[i] = Call("addLiquidity", FALSE) =>
            /\ i = Len(calls)
            /\ pc \notin {"init_hedge", "init_write"}
            /\ current_position.status # "Active"

C6_Witness ==
    /\ pc = "handler"
    /\ Len(calls) = 3
    /\ LastCall = Call("addLiquidity", FALSE)
    /\ current_position.status = "Faulted"

\* C7: whenever the position is Active and no rebalance is running, both
\* legs are open, the hedge reference is present and the hedge size equals
\* the pool-asset amount of the pool leg.
C7_ActiveIsHedged ==
    (current_position.status = "Active" /\ depth = 0) =>
        /\ current_position.handle \in pool_open
        /\ current_position.hedge_ref # None
        /\ current_position.hedge_ref \in hedge_open
        /\ current_position.hedge_size = current_position.sui_amount

\* C8: at most one invocation of rebalance_position is in flight.
C8_OneRebalanceInFlight == depth <= 1

C8_Witness == depth = 1 /\ pc = "reb_close" /\ calls = <<Call("removeLiquidity", TRUE)>>

C9_AtOrBelowLower ==
    price * Den * Den
        <= current_position.lower_price * (Den + config.rebalance_threshold)

C9_AtOrAboveUpper ==
    price * Den * Den
        >= current_position.upper_price * (Den - config.rebalance_threshold)

\* C9: the drift check answers true exactly when the price is at or below
\* lowerPrice * (1 + threshold) or at or above upperPrice * (1 - threshold),
\* and false strictly between the two.
C9_DriftExact ==
    [][(pc = "check" /\ pc' \in {"reb_remove", "report"}) =>
          /\ drift' = IF C9_AtOrBelowLower \/ C9_AtOrAboveUpper
                      THEN "true" ELSE "false"
          /\ (pc' = "reb_remove") = (C9_AtOrBelowLower \/ C9_AtOrAboveUpper)]_vars

C9_Witness ==
    /\ pc = "reb_remove"
    /\ drift = "true"
    /\ price * Den * Den
         = current_position.lower_price * (Den + config.rebalance_threshold)
    /\ ~C9_AtOrAboveUpper

\* C10: right after a successful initialize_position, the drift check at the
\* price the range was computed from is false.
C10_NoDriftAtRangePrice ==
    (pc = "check" /\ current_position.status = "Active" /\ ~failed
        /\ price = current_position.range_price) =>
        ~check_rebalance_condition(current_position, config, price)

\* lower threshold above upper threshold, whatever the price of the range:
\* (1 - range) * (1 + threshold) > (1 + range) * (1 - threshold)
ThresholdsCrossed(cfg) ==
    (Den - cfg.price_range) * (Den + cfg.rebalance_threshold)
        > (Den + cfg.price_range) * (Den - cfg.rebalance_threshold)

\* C11: a configuration whose thresholds cross is rejected when it is
\* loaded, so no state in which initialize_position or the loop has started
\* has such a configuration.
C11_CrossedConfigRejected ==
    pc # "start" => ~ThresholdsCrossed(config)

\* C13: a failed submission to the ledger or the venue, in the first
\* initialize_position or in a rebalance, does not end the process.
C13_SubmitFailureKeepsPolling ==
    (Len(calls) >= 1 /\ ~LastCall.ok) => pc # "terminated"

\* C17: the range computed from a price p is lower < p < upper, and the
\* amounts computed from a price p satisfy
\* poolAssetAmount * p + pairedAssetAmount = capital with
\* pairedAssetAmount = capital / 2.
C17_RangeAndSplit ==
    /\ locals.step2_price > 0 =>
           /\ locals.new_lower < locals.step2_price * Den
           /\ locals.step2_price * Den < locals.new_upper
    /\ locals.swap_price > 0 =>
           /\ locals.sui_amount[1] * locals.swap_price * locals.usdc_amount[2]
                + locals.usdc_amount[1] * locals.sui_amount[2]
              = BaseAmount * locals.sui_amount[2] * locals.usdc_amount[2]
           /\ 2 * locals.usdc_amount[1] = BaseAmount * locals.usdc_amount[2]

C17_Witness ==
    /\ pc = "init_range"
    /\ ctx = "rebalance"
    /\ locals.step2_price > 0
    /\ locals.swap_price > 0
    /\ locals.swap_price # locals.step2_price

\* C18: the position written by a successful rebalance has the range that
\* step 2 computed from the price it read, and amounts and hedge size
\* computed from that same price, whatever the price does afterwards.
C18_RangeOfStep2 ==
    [][(pc = "init_write" /\ ctx = "rebalance" /\ locals.order_id # None) =>
          /\ current_position'.lower_price = locals.new_lower
          /\ current_position'.upper_price = locals.new_upper
          /\ current_position'.sui_amount =
                 calculate_swap_amounts(locals.step2_price, BaseAmount).sui_amount
          /\ current_position'.hedge_size =
                 calculate_swap_amounts(locals.step2_price, BaseAmount).sui_amount]_vars

\* C19: whatever fails, addLiquidity is called only while no deposit is
\* open and openShort only while no short is open, so at most one pool leg
\* and at most one hedge leg exist at any time.
C19_NoDoubleExposure ==
    /\ Cardinality(pool_open) <= 1
    /\ Cardinality(hedge_open) <= 1
    /\ pc = "init_add" => pool_open = {}
    /\ pc = "init_hedge" => hedge_open = {}

C19_Witness ==
    /\ pc = "init_hedge"
    /\ ctx = "rebalance"
    /\ failed
    /\ Cardinality(pool_open) = 1
    /\ current_position.handle \notin pool_open

\* C12: an iteration in which a price fetch failed, the one of step 2 of a
\* rebalance included, leaves the Position record, the pool leg and the
\* hedge leg as they were when the iteration began.
C12_OracleErrorChangesNothing ==
    (pc = "handler" /\ locals.err = "oracle") =>
        /\ current_position = iter_start.position
        /\ pool_open = iter_start.pool
        /\ hedge_open = iter_start.hedge

\* C14: a step in which the delivery of a report or of an alert fails
\* leaves the Position record and both legs as they are and does not end
\* the loop.
C14_DeliveryFailureNonFatal ==
    [][(~notify_failed /\ notify_failed') =>
          /\ current_position' = current_position
          /\ pool_open' = pool_open
          /\ hedge_open' = hedge_open
          /\ pc' \in {"init_write", "handler", "check"}]_vars

C14_Witness ==
    /\ pc = "handler"
    /\ locals.err = "notify"
    /\ notify_failed
    /\ Len(calls) = 4
    /\ \A i \in 1..4 : calls[i].ok
    /\ current_position.status = "Active"
    /\ current_position # iter_start.position

\* the text of an alert that names a failed call
AlertAbout(op) ==
    CASE op = "removeLiquidity" -> "remove_liquidity"
      [] op = "closeShort" -> "close_hedge"
      [] op = "addLiquidity" -> "add_liquidity"
      [] op = "openShort" -> "openShort"

C16_ShutdownCompletesIteration ==
    (pc = "killed" /\ Len(calls) >= 1 /\ calls[1].op = "removeLiquidity") =>
        depth = 0

DriftNow == check_rebalance_condition(current_position, config, price)

C20_Drifted ==
    /\ calm
    /\ pc = "check"
    /\ current_position.status = "Active"
    /\ DriftNow

C20_Settled ==
    /\ current_position.status = "Active"
    /\ depth = 0
    /\ ~DriftNow

\* C20: when the position is Active, the price satisfies the drift
\* condition and from then on every call succeeds and the price rests, the
\* position eventually is Active with a range for which the drift condition
\* is false at that price, and stays so: no further rebalance is started.
C20_RebalanceSettles == C20_Drifted ~> []C20_Settled

====
